---- MODULE Spec2Model ----
(***************************************************************************)
(* narigama-utils: a clipboard-driven text transformer (src/src/main.rs).  *)
(*                                                                         *)
(* A string is a sequence of Unicode code points (Rust `char`s); its bytes *)
(* are its UTF-8 encoding.  A fallible step (`unwrap`, `expect`) yields a  *)
(* record [ok |-> BOOLEAN, val |-> string]; ok = FALSE is a panic.         *)
(***************************************************************************)
EXTENDS Integers, Sequences, FiniteSets, TLC

VARIABLES
    pc,              \* position of the run (of main, or of the function applied)
    command,         \* args.command
    panic_strategy,  \* the build's panic strategy: "unwind" or "abort"
    clipboard,       \* contents of the system clipboard
    clipboard_init,  \* contents of the clipboard when the process started
    input,           \* the `input` binding of main / the argument of the function
    result,          \* the `result` binding of main / the value of the function
    reads,           \* number of get_contents calls made
    writes,          \* the strings passed to set_contents, in call order
    stdout_buf,      \* bytes print! left in stdout's line buffer
    stdout,          \* what has reached the process's standard output
    failure,         \* which step panicked: "none", "context", "read", "transform", "write"
    exit_code        \* -1 while running, 0 after main returns, 101 after a panic

vars == <<pc, command, panic_strategy, clipboard, clipboard_init, input, result,
          reads, writes, stdout_buf, stdout, failure, exit_code>>

(***************************************************************************)
(* Bounds of the model                                                     *)
(***************************************************************************)
\* longest free-form clipboard text enumerated
MaxLen == 3
\* most space-separated tokens in an enumerated binary-decode input
MaxTokens == 2
\* most path segments in an enumerated URL
MaxSegs == 3
\* largest seed of the random generator
MaxSeed == 1

(***************************************************************************)
(* Strings                                                                 *)
(***************************************************************************)
Ok(v) == [ok |-> TRUE, val |-> v]
Panicked == [ok |-> FALSE, val |-> <<>>]

\* char::is_whitespace (the Unicode White_Space property), used by str::trim
IsWhitespace(c) ==
    \/ c \in 9..13
    \/ c \in {32, 133, 160, 5760, 8232, 8233, 8239, 8287, 12288}
    \/ c \in 8192..8202

RECURSIVE SkipStart(_)
\* str::trim_start
SkipStart(s) ==
    IF s # <<>> /\ IsWhitespace(Head(s)) THEN SkipStart(Tail(s)) ELSE s

RECURSIVE SkipEnd(_)
\* str::trim_end
SkipEnd(s) ==
    IF s # <<>> /\ IsWhitespace(s[Len(s)]) THEN SkipEnd(SubSeq(s, 1, Len(s) - 1)) ELSE s

\* str::trim
trim(s) == SkipEnd(SkipStart(s))

RECURSIVE trim_end_matches(_, _)
\* str::trim_end_matches with a one-character pattern: every trailing c goes
trim_end_matches(s, c) ==
    IF s # <<>> /\ s[Len(s)] = c
    THEN trim_end_matches(SubSeq(s, 1, Len(s) - 1), c)
    ELSE s

RECURSIVE split(_, _)
\* str::split on one character: n separators give n + 1 items, "" gives <<"">>
split(s, c) ==
    IF \E i \in 1..Len(s) : s[i] = c
    THEN LET i == CHOOSE k \in 1..Len(s) : s[k] = c /\ \A j \in 1..(k - 1) : s[j] # c
         IN  <<SubSeq(s, 1, i - 1)>> \o split(SubSeq(s, i + 1, Len(s)), c)
    ELSE <<s>>

RECURSIVE join(_, _)
\* [String]::join
join(items, sep) ==
    IF items = <<>> THEN <<>>
    ELSE IF Len(items) = 1 THEN items[1]
    ELSE items[1] \o sep \o join(Tail(items), sep)

\* str::starts_with
starts_with(s, p) == Len(s) >= Len(p) /\ SubSeq(s, 1, Len(p)) = p

\* str::contains
contains(s, p) ==
    \E i \in 0..(Len(s) - Len(p)) : SubSeq(s, i + 1, i + Len(p)) = p

\* the UTF-8 encoding of one char
Utf8(c) ==
    IF c < 128 THEN <<c>>
    ELSE IF c < 2048 THEN <<192 + (c \div 64), 128 + (c % 64)>>
    ELSE IF c < 65536
         THEN <<224 + (c \div 4096), 128 + ((c \div 64) % 64), 128 + (c % 64)>>
    ELSE <<240 + (c \div 262144), 128 + ((c \div 4096) % 64),
           128 + ((c \div 64) % 64), 128 + (c % 64)>>

RECURSIVE bytes(_)
\* str::bytes
bytes(s) == IF s = <<>> THEN <<>> ELSE Utf8(Head(s)) \o bytes(Tail(s))

\* all strings over alphabet of length at most n
StringsUpTo(alphabet, n) == UNION {[1..k -> alphabet] : k \in 0..n}

(***************************************************************************)
(* binary_decode / binary_encode                                           *)
(***************************************************************************)
\* char::to_digit: the digit's value, or -1 when c is no digit of the radix
to_digit(c, radix) ==
    LET v == IF c \in 48..57 THEN c - 48
             ELSE IF c \in 97..122 THEN c - 97 + 10
             ELSE IF c \in 65..90 THEN c - 65 + 10
             ELSE -1
    IN  IF v >= 0 /\ v < radix THEN v ELSE -1

RECURSIVE Accumulate(_, _, _, _)
\* the checked multiply-and-add loop of from_str_radix; -1 is Err
Accumulate(digits, radix, acc, max) ==
    IF digits = <<>> THEN acc
    ELSE LET d == to_digit(Head(digits), radix)
         IN  IF d < 0 THEN -1                       \* InvalidDigit
             ELSE IF acc * radix + d > max THEN -1  \* PosOverflow
             ELSE Accumulate(Tail(digits), radix, acc * radix + d, max)

\* u8::from_str_radix: the value, or -1 for Err
u8_from_str_radix(src, radix) ==
    IF src = <<>> THEN -1                           \* Empty
    ELSE IF src = <<43>> \/ src = <<45>> THEN -1    \* a lone sign
    ELSE IF Head(src) = 43 THEN Accumulate(Tail(src), radix, 0, 255)
    ELSE Accumulate(src, radix, 0, 255)

binary_decode(s) ==
    LET chunks == split(trim(s), 32)
        vals == [i \in 1..Len(chunks) |-> u8_from_str_radix(chunks[i], 2)]
    IN  IF \E i \in 1..Len(chunks) : vals[i] < 0
        THEN Panicked                               \* .unwrap() on Err
        ELSE Ok(vals)                               \* `as char`: the char of that value

RECURSIVE ToBinary(_)
\* format!("{b:b}"): no leading zeros, "0" for zero
ToBinary(b) ==
    IF b < 2 THEN <<48 + b>> ELSE ToBinary(b \div 2) \o <<48 + (b % 2)>>

\* format!("{:0>8}", s): right-aligned in a field of `width`, filled with `fill`
PadLeft(s, width, fill) ==
    IF Len(s) >= width THEN s ELSE [i \in 1..(width - Len(s)) |-> fill] \o s

binary_encode(s) ==
    LET bs == bytes(s)
    IN  join([i \in 1..Len(bs) |-> PadLeft(ToBinary(bs[i]), 8, 48)], <<32>>)

(***************************************************************************)
(* Url (the url crate), as far as reddit_top uses it.  A Url is the record *)
(* of the pieces of its serialization:                                     *)
(*   scheme ":" authority path ("?" query when has_query)                  *)
(* where authority is "" or "//host".  Two kinds of URL are modelled: a    *)
(* special scheme with a host (https://host/path) and a scheme-only URL    *)
(* with an opaque path (mailto:path), which cannot be a base.  The inputs  *)
(* need no percent-encoding, dot-segment removal or case folding.          *)
(***************************************************************************)
S_https == <<104, 116, 116, 112, 115>>                        \* "https"
S_mailto == <<109, 97, 105, 108, 116, 111>>                   \* "mailto"
S_host == <<47, 47, 114, 101, 100, 100, 105, 116, 46, 99, 111, 109>>  \* "//reddit.com"
S_u == <<117>>                                                \* "u"
S_user == <<117, 115, 101, 114>>                              \* "user"
S_r == <<114>>                                                \* "r"
S_comments == <<99, 111, 109, 109, 101, 110, 116, 115>>       \* "comments"
S_abc == <<97, 98, 99>>                                       \* "abc"
S_top == <<116, 111, 112>>                                    \* "top"
S_submitted == <<115, 117, 98, 109, 105, 116, 116, 101, 100>> \* "submitted"
S_sort == <<115, 111, 114, 116>>                              \* "sort"
S_t == <<116>>                                                \* "t"
S_all == <<97, 108, 108>>                                     \* "all"
P_u == <<47, 117, 47>>                                        \* "/u/"
P_user == <<47, 117, 115, 101, 114, 47>>                      \* "/user/"
P_comments == <<47, 99, 111, 109, 109, 101, 110, 116, 115, 47>>  \* "/comments/"

NoUrl == [scheme |-> <<>>, authority |-> <<>>, path |-> <<>>,
          has_query |-> FALSE, query |-> <<>>]

\* the special schemes of the URL standard that the inputs use
IsSpecial(scheme) == scheme = S_https

\* index of the first c in s, 0 when there is none
IndexOf(s, c) ==
    IF \E i \in 1..Len(s) : s[i] = c
    THEN CHOOSE i \in 1..Len(s) : s[i] = c /\ \A j \in 1..(i - 1) : s[j] # c
    ELSE 0

\* a URL scheme: a letter, then letters, digits, '+', '-', '.'
IsScheme(s) ==
    /\ s # <<>>
    /\ Head(s) \in (65..90) \cup (97..122)
    /\ \A i \in 1..Len(s) : s[i] \in (65..90) \cup (97..122) \cup (48..57) \cup {43, 45, 46}

\* Url::parse: [ok, val]; a string with no scheme is a relative URL without
\* a base, an error
Url_parse(s) ==
    LET colon == IndexOf(s, 58)
        scheme == SubSeq(s, 1, colon - 1)
        rest == SubSeq(s, colon + 1, Len(s))
        qm == IndexOf(rest, 63)
        hier == IF qm = 0 THEN rest ELSE SubSeq(rest, 1, qm - 1)
        query == IF qm = 0 THEN <<>> ELSE SubSeq(rest, qm + 1, Len(rest))
        \* a special scheme: "//", the host up to the next '/', then the path
        afterSlashes == IF starts_with(hier, <<47, 47>>) THEN SubSeq(hier, 3, Len(hier)) ELSE hier
        slash == IndexOf(afterSlashes, 47)
        host == IF slash = 0 THEN afterSlashes ELSE SubSeq(afterSlashes, 1, slash - 1)
        hpath == IF slash = 0 THEN <<47>> ELSE SubSeq(afterSlashes, slash, Len(afterSlashes))
    IN  IF colon = 0 \/ ~IsScheme(scheme) THEN [ok |-> FALSE, val |-> NoUrl]
        ELSE IF IsSpecial(scheme)
        THEN IF host = <<>> THEN [ok |-> FALSE, val |-> NoUrl]    \* EmptyHost
             ELSE [ok |-> TRUE,
                   val |-> [scheme |-> scheme, authority |-> <<47, 47>> \o host,
                            path |-> hpath, has_query |-> qm # 0, query |-> query]]
        ELSE [ok |-> TRUE,
              val |-> [scheme |-> scheme, authority |-> <<>>, path |-> hier,
                       has_query |-> qm # 0, query |-> query]]

\* Url::cannot_be_a_base: nothing starting with '/' follows "scheme:"
cannot_be_a_base(url) == ~starts_with(url.authority \o url.path, <<47>>)

\* Url::set_path: a special URL's path always starts with '/'; the path of a
\* URL that cannot be a base stays opaque, a leading '/' escaped
set_path(url, p) ==
    IF cannot_be_a_base(url)
    THEN [url EXCEPT !.path = IF starts_with(p, <<47>>)
                              THEN <<37, 50, 70>> \o Tail(p) ELSE p]
    ELSE IF IsSpecial(url.scheme)
    THEN [url EXCEPT !.path = IF starts_with(p, <<47>>) THEN p ELSE <<47>> \o p]
    ELSE [url EXCEPT !.path = IF p = <<>> \/ starts_with(p, <<47>>) THEN p ELSE <<47>> \o p]

\* Url::path_segments_mut().unwrap().extend([segment]): Err, so a panic, when
\* the URL cannot be a base; a '/' goes before the segment unless the path is "/"
path_segments_extend(url, segment) ==
    IF cannot_be_a_base(url) THEN [ok |-> FALSE, val |-> NoUrl]
    ELSE [ok |-> TRUE,
          val |-> [url EXCEPT !.path =
                       IF Len(url.path) > 1 \/ Len(url.path) = 0
                       THEN url.path \o <<47>> \o segment
                       ELSE url.path \o segment]]

\* Url::query_pairs_mut().append_pair(name, value): the pair goes to the end
\* of the query, after a '&' when the query is not empty
append_pair(url, name, value) ==
    [url EXCEPT !.has_query = TRUE,
                !.query = (IF url.query # <<>> THEN url.query \o <<38>> ELSE <<>>)
                              \o name \o <<61>> \o value]

\* Url::to_string
Url_to_string(url) ==
    url.scheme \o <<58>> \o url.authority \o url.path
        \o (IF url.has_query THEN <<63>> \o url.query ELSE <<>>)

\* reddit_top with `top` appended to a comments thread as well
reddit_top_always_top(s) ==
    LET parsed == Url_parse(s)
        trimmed == trim_end_matches(parsed.val.path, 47)
        url == set_path(parsed.val, trimmed)
        submitted == path_segments_extend(url, S_submitted)
        top == path_segments_extend(url, S_top)
    IN  IF ~parsed.ok THEN Panicked
        ELSE IF starts_with(url.path, P_u) \/ starts_with(url.path, P_user)
        THEN IF ~submitted.ok THEN Panicked
             ELSE Ok(Url_to_string(append_pair(submitted.val, S_sort, S_top)))
        ELSE IF ~top.ok THEN Panicked
        ELSE Ok(Url_to_string(append_pair(append_pair(top.val, S_sort, S_top), S_t, S_all)))

\* reddit_top without the trimming of the path
reddit_top_untrimmed(s) ==
    LET parsed == Url_parse(s)
        url == parsed.val
        top == IF contains(url.path, P_comments) THEN [ok |-> TRUE, val |-> url]
               ELSE path_segments_extend(url, S_top)
    IN  IF ~parsed.ok THEN Panicked
        ELSE IF starts_with(url.path, P_u) \/ starts_with(url.path, P_user)
        THEN Ok(Url_to_string(append_pair(path_segments_extend(url, S_submitted).val,
                                          S_sort, S_top)))
        ELSE IF ~top.ok THEN Panicked
        ELSE Ok(Url_to_string(append_pair(append_pair(top.val, S_sort, S_top), S_t, S_all)))

reddit_top(s) ==
    LET parsed == Url_parse(s)
        trimmed == trim_end_matches(parsed.val.path, 47)
        url == set_path(parsed.val, trimmed)
        submitted == path_segments_extend(url, S_submitted)
        top == IF contains(url.path, P_comments) THEN [ok |-> TRUE, val |-> url]
               ELSE path_segments_extend(url, S_top)
    IN  IF ~parsed.ok THEN Panicked                 \* Url::parse(input).unwrap()
        ELSE IF starts_with(url.path, P_u) \/ starts_with(url.path, P_user)
        THEN IF ~submitted.ok THEN Panicked
             ELSE Ok(Url_to_string(append_pair(submitted.val, S_sort, S_top)))
        ELSE IF ~top.ok THEN Panicked               \* path_segments_mut().unwrap()
        ELSE Ok(Url_to_string(append_pair(append_pair(top.val, S_sort, S_top), S_t, S_all)))

(***************************************************************************)
(* Command and config_espanso                                              *)
(***************************************************************************)
\* Command::iter(): the variants in declaration order
Command_iter ==
    <<"ConfigEspanso", "BinaryDecode", "BinaryEncode", "FormatJson", "Ip", "Password",
      "RedditTop", "Spongebob", "Timestamp", "Uuid4", "Uuid7">>

Command == {Command_iter[i] : i \in 1..Len(Command_iter)}

\* the strum Display of a variant: its `serialize` string, else its own name
Display(item) ==
    CASE item = "ConfigEspanso" -> <<67, 111, 110, 102, 105, 103, 69, 115, 112, 97, 110, 115, 111>>
      [] item = "BinaryDecode" -> <<98, 105, 110, 97, 114, 121, 45, 100, 101, 99, 111, 100, 101>>
      [] item = "BinaryEncode" -> <<98, 105, 110, 97, 114, 121, 45, 101, 110, 99, 111, 100, 101>>
      [] item = "FormatJson" -> <<102, 111, 114, 109, 97, 116, 45, 106, 115, 111, 110>>
      [] item = "Ip" -> <<105, 112>>
      [] item = "Password" -> <<112, 97, 115, 115, 119, 111, 114, 100>>
      [] item = "RedditTop" -> <<114, 101, 100, 100, 105, 116, 45, 116, 111, 112>>
      [] item = "Spongebob" -> <<115, 112, 111, 110, 103, 101, 98, 111, 98>>
      [] item = "Timestamp" -> <<116, 105, 109, 101, 115, 116, 97, 109, 112>>
      [] item = "Uuid4" -> <<117, 117, 105, 100, 52>>
      [] item = "Uuid7" -> <<117, 117, 105, 100, 55>>

\* the template of config_espanso around {1}, {0} and {1}
\* "\n  - trigger: \";"
Tpl_trigger ==
    <<10, 32, 32, 45, 32, 116, 114, 105, 103, 103, 101, 114, 58, 32, 34, 59>>
\* "\"\n    replace: \"{{output}}\"\n    vars:\n      - name: output\n        type: script\n
\*         params:\n          args:\n            - "
Tpl_args ==
    <<34, 10, 32, 32, 32, 32, 114, 101, 112, 108, 97, 99, 101, 58, 32, 34, 123, 123, 111, 117,
      116, 112, 117, 116, 125, 125, 34, 10, 32, 32, 32, 32, 118, 97, 114, 115, 58, 10, 32, 32,
      32, 32, 32, 32, 45, 32, 110, 97, 109, 101, 58, 32, 111, 117, 116, 112, 117, 116, 10, 32,
      32, 32, 32, 32, 32, 32, 32, 116, 121, 112, 101, 58, 32, 115, 99, 114, 105, 112, 116, 10,
      32, 32, 32, 32, 32, 32, 32, 32, 112, 97, 114, 97, 109, 115, 58, 10, 32, 32, 32, 32, 32,
      32, 32, 32, 32, 32, 97, 114, 103, 115, 58, 10, 32, 32, 32, 32, 32, 32, 32, 32, 32, 32,
      32, 32, 45, 32>>
\* "\n            - "
Tpl_arg ==
    <<10, 32, 32, 32, 32, 32, 32, 32, 32, 32, 32, 32, 32, 45, 32>>
\* "\n"
Tpl_end == <<10>>

\* the format! of one item
Block(exec_path, item) ==
    Tpl_trigger \o Display(item) \o Tpl_args \o exec_path \o Tpl_arg \o Display(item) \o Tpl_end

RECURSIVE FilterMap(_, _)
\* the filter_map of config_espanso: None for ConfigEspanso, a block for the others
FilterMap(items, exec_path) ==
    IF items = <<>> THEN <<>>
    ELSE IF Head(items) = "ConfigEspanso" THEN FilterMap(Tail(items), exec_path)
    ELSE <<Block(exec_path, Head(items))>> \o FilterMap(Tail(items), exec_path)

\* config_espanso with every variant rendered, itself included
config_espanso_unfiltered(exe) ==
    IF ~exe.ok THEN Panicked
    ELSE Ok(join([i \in 1..Len(Command_iter) |-> Block(exe.val, Command_iter[i])], <<10>>))

\* config_espanso, given what std::env::current_exe() returned
config_espanso(exe) ==
    IF ~exe.ok THEN Panicked                        \* current_exe().unwrap()
    ELSE Ok(join(FilterMap(Command_iter, exe.val), <<10>>))

(***************************************************************************)
(* format_json, gen_password, spongebob                                    *)
(***************************************************************************)
\* serde_json skips ' ', '\n', '\t', '\r' around the value
IsJsonSpace(c) == c \in {32, 10, 9, 13}

RECURSIVE JsonSkipStart(_)
JsonSkipStart(s) ==
    IF s # <<>> /\ IsJsonSpace(Head(s)) THEN JsonSkipStart(Tail(s)) ELSE s

RECURSIVE JsonSkipEnd(_)
JsonSkipEnd(s) ==
    IF s # <<>> /\ IsJsonSpace(s[Len(s)]) THEN JsonSkipEnd(SubSeq(s, 1, Len(s) - 1)) ELSE s

\* a JSON integer: "0", or digits that do not start with '0'
IsJsonInteger(s) ==
    /\ s # <<>>
    /\ \A i \in 1..Len(s) : s[i] \in 48..57
    /\ (Head(s) = 48 => Len(s) = 1)

\* format_json on the strings of the inputs, whose only JSON values are
\* short unsigned integers: the pretty-printed value is its digits; anything
\* else fails to parse
format_json(s) ==
    LET v == JsonSkipEnd(JsonSkipStart(s))
    IN  IF IsJsonInteger(v) THEN Ok(v) ELSE Panicked    \* .expect("Unable to parse json")

\* usize::MAX and isize::MAX (64-bit target), as decimal digits
USIZE_MAX == <<49, 56, 52, 52, 54, 55, 52, 52, 48, 55, 51, 55, 48, 57, 53, 53, 49, 54, 49, 53>>
ISIZE_MAX == <<57, 50, 50, 51, 51, 55, 50, 48, 51, 54, 56, 53, 52, 55, 55, 53, 56, 48, 55>>

RECURSIVE StripZeros(_)
\* decimal digits without their leading zeros
StripZeros(d) == IF Len(d) > 1 /\ Head(d) = 48 THEN StripZeros(Tail(d)) ELSE d

RECURSIVE DigitsLess(_, _)
\* a < b for two digit strings of the same length
DigitsLess(a, b) ==
    IF a = <<>> THEN FALSE
    ELSE IF Head(a) # Head(b) THEN Head(a) < Head(b)
    ELSE DigitsLess(Tail(a), Tail(b))

\* a > b for two decimal numbers given by their digits
DecimalGreater(a, b) ==
    LET x == StripZeros(a)
        y == StripZeros(b)
    IN  Len(x) > Len(y) \/ (Len(x) = Len(y) /\ DigitsLess(y, x))

\* str::parse::<usize>: [ok, val], val the digits of the value, no leading
\* zeros; no trimming; one leading '+' allowed, '-' is an invalid digit
usize_from_str(src) ==
    LET digits == IF src # <<>> /\ Head(src) = 43 THEN Tail(src) ELSE src
    IN  IF src = <<>> \/ src = <<43>> \/ src = <<45>> THEN Panicked       \* Empty, lone sign
        ELSE IF \E i \in 1..Len(digits) : digits[i] \notin 48..57 THEN Panicked  \* InvalidDigit
        ELSE IF DecimalGreater(digits, USIZE_MAX) THEN Panicked          \* PosOverflow
        ELSE Ok(StripZeros(digits))

RECURSIVE DecimalValue(_, _)
\* the number some digits denote
DecimalValue(d, acc) ==
    IF d = <<>> THEN acc ELSE DecimalValue(Tail(d), acc * 10 + (Head(d) - 48))

\* rand::distr::Alphanumeric's table
\* "ABCDEFGHIJKLMNOPQRSTUVWXYZabcdefghijklmnopqrstuvwxyz0123456789"
GEN_ASCII_STR_CHARSET ==
    <<65, 66, 67, 68, 69, 70, 71, 72, 73, 74, 75, 76, 77, 78, 79, 80, 81, 82, 83, 84, 85, 86,
      87, 88, 89, 90, 97, 98, 99, 100, 101, 102, 103, 104, 105, 106, 107, 108, 109, 110, 111,
      112, 113, 114, 115, 116, 117, 118, 119, 120, 121, 122, 48, 49, 50, 51, 52, 53, 54, 55,
      56, 57>>

\* the generator behind rand::rng(): its stream of 6-bit draws is modelled
\* by a counter generator that starts at the seed; Draw is its k-th draw
Draw(seed, k) == (seed + k * 37) % 64

\* a draw Alphanumeric accepts: an index into its table; 62 and 63 are
\* rejected and drawn again
IsAccepted(y) == y < Len(GEN_ASCII_STR_CHARSET)

\* the accepted draws of one period of the generator, in order
AcceptedDraws(seed) == SelectSeq([k \in 1..64 |-> Draw(seed, k)], IsAccepted)

\* sample_iter(Alphanumeric).take(n).map(char::from): the chars of the first
\* n accepted draws; the stream of accepted draws repeats with its period
sample_take(seed, n) ==
    LET accepted == AcceptedDraws(seed)
    IN  [i \in 1..n |-> GEN_ASCII_STR_CHARSET[accepted[((i - 1) % Len(accepted)) + 1] + 1]]

\* the requested length of gen_password, as decimal digits
password_length(s) ==
    LET parsed == usize_from_str(s)
    IN  IF parsed.ok THEN parsed.val ELSE <<51, 50>>    \* unwrap_or(32)

\* gen_password with the generator seeded by `seed`.  collect() reserves the
\* iterator's lower size bound, the length, before the first draw: a String
\* cannot hold more than isize::MAX bytes, and the reservation panics with
\* "capacity overflow"
gen_password(s, seed) ==
    LET length == password_length(s)
    IN  IF DecimalGreater(length, ISIZE_MAX) THEN Panicked
        ELSE Ok(sample_take(seed, DecimalValue(length, 0)))

\* char::to_uppercase on the Latin-1 chars of the inputs
to_uppercase(c) ==
    IF c \in 97..122 THEN <<c - 32>>
    ELSE IF c = 181 THEN <<924>>
    ELSE IF c = 223 THEN <<83, 83>>
    ELSE IF c \in 224..254 /\ c # 247 THEN <<c - 32>>
    ELSE IF c = 255 THEN <<376>>
    ELSE <<c>>

\* char::to_lowercase on the Latin-1 chars of the inputs
to_lowercase(c) ==
    IF c \in 65..90 THEN <<c + 32>>
    ELSE IF c \in 192..222 /\ c # 215 THEN <<c + 32>>
    ELSE <<c>>

RECURSIVE SpongeFrom(_, _)
SpongeFrom(s, i) ==
    IF s = <<>> THEN <<>>
    ELSE (IF i % 2 = 0 THEN to_uppercase(Head(s)) ELSE to_lowercase(Head(s)))
             \o SpongeFrom(Tail(s), i + 1)

spongebob(s) == SpongeFrom(s, 0)

(***************************************************************************)
(* Inputs of the codec                                                     *)
(***************************************************************************)
\* ' ', tab, '+', '0', '1', 'A', e-acute, y-diaeresis
CodecAlphabet == {32, 9, 43, 48, 49, 65, 233, 255}

\* tokens a binary-decode input is made of
DecodeTokens ==
    { <<>>,                                   \* the empty token
      <<48>>, <<49>>,                         \* "0", "1"
      <<43>>, <<45, 49>>,                     \* "+", "-1"
      <<43, 49>>,                             \* "+1"
      <<48, 49, 48, 48, 48, 48, 48, 49>>,     \* "01000001"
      <<49, 49, 49, 49, 49, 49, 49, 49>>,     \* "11111111"
      <<49, 48, 48, 48, 48, 48, 48, 48, 48>>, \* "100000000" = 256
      <<48, 48, 49, 48, 48, 48, 48, 48, 49>>, \* "001000001": nine digits
      <<48, 49, 48, 48, 48, 48, 50, 49>>,     \* "01000021"
      <<49, 49, 48, 48, 48, 48, 49, 49>>,     \* "11000011"
      <<49, 48, 49, 48, 49, 48, 48, 49>> }    \* "10101001"

DecodeInputs ==
    { join(ts, <<32>>) : ts \in UNION {[1..k -> DecodeTokens] : k \in 1..MaxTokens} }

CodecInputs == StringsUpTo(CodecAlphabet, MaxLen) \cup DecodeInputs

(***************************************************************************)
(* SpecCodec: the codec applied to one input                               *)
(***************************************************************************)
Idle ==
    /\ panic_strategy = "unwind"
    /\ clipboard = <<>> /\ clipboard_init = <<>>
    /\ reads = 0 /\ writes = <<>>
    /\ stdout_buf = <<>> /\ stdout = <<>>
    /\ failure = "none" /\ exit_code = -1

IdleUnchanged ==
    UNCHANGED <<command, panic_strategy, clipboard, clipboard_init, input,
                reads, writes, stdout_buf, stdout, failure, exit_code>>

InitCodec ==
    /\ pc = "start"
    /\ command \in {"BinaryDecode", "BinaryEncode"}
    /\ input \in CodecInputs
    /\ result = Panicked
    /\ Idle

Encode ==
    /\ pc = "start" /\ command = "BinaryEncode"
    /\ result' = Ok(binary_encode(input))
    /\ pc' = "encoded"
    /\ IdleUnchanged

Decode ==
    /\ pc = "start" /\ command = "BinaryDecode"
    /\ result' = binary_decode(input)
    /\ pc' = "decoded"
    /\ IdleUnchanged

DecodeEncoded ==
    /\ pc = "encoded"
    /\ result' = binary_decode(result.val)
    /\ pc' = "roundtrip"
    /\ IdleUnchanged

NextCodec == Encode \/ Decode \/ DecodeEncoded

SpecCodec == InitCodec /\ [][NextCodec]_vars

\* C4: for every string b, binary_decode(binary_encode(b)) succeeds and is b
C4_RoundTrip ==
    pc = "roundtrip" => (result.ok /\ result.val = input)

\* C5 helper: an 8-digit string of '0' and '1'
IsOctet(t) == Len(t) = 8 /\ \A i \in 1..8 : t[i] \in {48, 49}

\* C5: binary_decode fails whenever a space-separated token of its (trimmed)
\* input is not an 8-digit string of 0s and 1s
C5_BadTokenFails ==
    (pc = "decoded" /\ \E i \in 1..Len(split(trim(input), 32)) :
                            ~IsOctet(split(trim(input), 32)[i]))
        => ~result.ok

(***************************************************************************)
(* SpecReddit: reddit_top applied to one input                             *)
(***************************************************************************)
\* path segments the enumerated URLs are made of; the empty segment gives a
\* trailing or a doubled '/'
RedditSegs == {S_u, S_user, S_r, S_comments, S_abc, <<>>}

RedditPaths ==
    { join(segs, <<47>>) : segs \in UNION {[1..k -> RedditSegs] : k \in 1..MaxSegs} }

\* "", "?", "?sort=new", "?t=week", "?sort=new&t=week"
RedditQueries ==
    { <<>>, <<63>>,
      <<63, 115, 111, 114, 116, 61, 110, 101, 119>>,
      <<63, 116, 61, 119, 101, 101, 107>>,
      <<63, 115, 111, 114, 116, 61, 110, 101, 119, 38, 116, 61, 119, 101, 101, 107>> }

\* "https://reddit.com/r/rust/"
Example_listing ==
    <<104, 116, 116, 112, 115, 58, 47, 47, 114, 101, 100, 100, 105, 116, 46, 99, 111, 109, 47, 114, 47, 114, 117, 115, 116, 47>>
\* "https://reddit.com/r/rust/top?sort=top&t=all"
Example_listing_top ==
    <<104, 116, 116, 112, 115, 58, 47, 47, 114, 101, 100, 100, 105, 116, 46, 99, 111, 109, 47, 114, 47, 114, 117, 115, 116, 47, 116, 111, 112, 63, 115, 111, 114, 116, 61, 116, 111, 112, 38, 116, 61, 97, 108, 108>>
\* "https://reddit.com/u/someone/"
Example_user ==
    <<104, 116, 116, 112, 115, 58, 47, 47, 114, 101, 100, 100, 105, 116, 46, 99, 111, 109, 47, 117, 47, 115, 111, 109, 101, 111, 110, 101, 47>>
\* "https://reddit.com/u/someone/submitted?sort=top"
Example_user_submitted ==
    <<104, 116, 116, 112, 115, 58, 47, 47, 114, 101, 100, 100, 105, 116, 46, 99, 111, 109, 47, 117, 47, 115, 111, 109, 101, 111, 110, 101, 47, 115, 117, 98, 109, 105, 116, 116, 101, 100, 63, 115, 111, 114, 116, 61, 116, 111, 112>>
\* "https://reddit.com/r/rust/comments/abc123/title/"
Example_thread ==
    <<104, 116, 116, 112, 115, 58, 47, 47, 114, 101, 100, 100, 105, 116, 46, 99, 111, 109, 47, 114, 47, 114, 117, 115, 116, 47, 99, 111, 109, 109, 101, 110, 116, 115, 47, 97, 98, 99, 49, 50, 51, 47, 116, 105, 116, 108, 101, 47>>
\* "https://reddit.com/r/rust/comments/abc123/title?sort=top&t=all"
Example_thread_top ==
    <<104, 116, 116, 112, 115, 58, 47, 47, 114, 101, 100, 100, 105, 116, 46, 99, 111, 109, 47, 114, 47, 114, 117, 115, 116, 47, 99, 111, 109, 109, 101, 110, 116, 115, 47, 97, 98, 99, 49, 50, 51, 47, 116, 105, 116, 108, 101, 63, 115, 111, 114, 116, 61, 116, 111, 112, 38, 116, 61, 97, 108, 108>>

RedditInputs ==
    { S_https \o <<58>> \o S_host \o <<47>> \o p \o q : p \in RedditPaths, q \in RedditQueries }
    \cup { S_mailto \o <<58>> \o p \o q :
               p \in {x \in RedditPaths : ~starts_with(x, <<47>>)}, q \in RedditQueries }
    \cup { Example_listing, Example_user, Example_thread }
    \cup { <<>>, S_r, S_https \o <<58, 47, 47>> }    \* "", "r", "https://": not URLs

InitReddit ==
    /\ pc = "start"
    /\ command = "RedditTop"
    /\ input \in RedditInputs
    /\ result = Panicked
    /\ Idle

Rewrite ==
    /\ pc = "start" /\ command = "RedditTop"
    /\ result' = reddit_top(input)
    /\ pc' = "rewritten"
    /\ IdleUnchanged

NextReddit == Rewrite

SpecReddit == InitReddit /\ [][NextReddit]_vars

\* the input and the output of a finished rewrite, parsed
InUrl == Url_parse(input).val
OutUrl == Url_parse(result.val).val

\* the name=value items of a URL's query
Params(url) == IF url.query = <<>> THEN <<>> ELSE split(url.query, 38)

\* how many items of the query are named `name`
CountParam(url, name) ==
    Cardinality({i \in 1..Len(Params(url)) : starts_with(Params(url)[i], name \o <<61>>)})

\* a URL was given, and it is one whose path can take segments
ValidInput == Url_parse(input).ok /\ ~cannot_be_a_base(InUrl)

UserPath(p) == starts_with(p, P_u) \/ starts_with(p, P_user)

\* the path with its trailing slashes stripped
Stripped(p) == trim_end_matches(p, 47)

\* C6: the output of reddit_top carries `sort` at most once and `t` at most once
C6_NoDuplicateParams ==
    (pc = "rewritten" /\ result.ok)
        => (CountParam(OutUrl, S_sort) <= 1 /\ CountParam(OutUrl, S_t) <= 1)

\* C7 as stated: off the user pages, `top` is appended exactly when the path of
\* the input has no "/comments/" in it, and sort=top and t=all are set
C7_TopIffNoCommentsInPath ==
    (pc = "rewritten" /\ ValidInput /\ ~UserPath(InUrl.path))
        => /\ result.ok
           /\ OutUrl.path = IF contains(InUrl.path, P_comments)
                            THEN Stripped(InUrl.path)
                            ELSE Stripped(InUrl.path) \o <<47>> \o S_top
           /\ Params(OutUrl) = Params(InUrl) \o <<S_sort \o <<61>> \o S_top, S_t \o <<61>> \o S_all>>

\* C7 as amended: off the user pages, `top` is appended exactly when the path,
\* its trailing slashes stripped, has no "/comments/" in it (a path that ends
\* in "/comments/" gets `top`); sort=top and t=all end the query; scheme and
\* host stay; the three-URL examples come out as written
C7_TopIffNoCommentsInStrippedPath ==
    (pc = "rewritten" /\ ValidInput /\ ~UserPath(InUrl.path))
        => /\ result.ok
           /\ OutUrl.scheme = InUrl.scheme /\ OutUrl.authority = InUrl.authority
           /\ OutUrl.path = IF contains(Stripped(InUrl.path), P_comments)
                            THEN Stripped(InUrl.path)
                            ELSE Stripped(InUrl.path) \o <<47>> \o S_top
           /\ Params(OutUrl) = Params(InUrl) \o <<S_sort \o <<61>> \o S_top, S_t \o <<61>> \o S_all>>
           /\ (input = Example_listing => result.val = Example_listing_top)
           /\ (input = Example_thread => result.val = Example_thread_top)

\* C7 witnesses: a thread URL rewritten without `top`
C7_Witness ==
    pc = "rewritten" /\ input = Example_thread /\ result = Ok(Example_thread_top)

\* C8 as stated: on a path that starts with /u/ or /user/, only `submitted`
\* and sort=top are added
C8_UserPathSubmitted ==
    (pc = "rewritten" /\ ValidInput /\ UserPath(InUrl.path))
        => /\ result.ok
           /\ OutUrl.path = Stripped(InUrl.path) \o <<47>> \o S_submitted
           /\ Params(OutUrl) = Params(InUrl) \o <<S_sort \o <<61>> \o S_top>>

\* C8 as amended: on a path that still starts with /u/ or /user/ once its
\* trailing slashes are stripped (a name follows the prefix), the prefix is
\* kept, only `submitted` is appended to the path and only sort=top to the
\* query: no `top` segment, no `t` parameter
C8_StrippedUserPathSubmitted ==
    (pc = "rewritten" /\ ValidInput /\ UserPath(Stripped(InUrl.path)))
        => /\ result.ok
           /\ OutUrl.scheme = InUrl.scheme /\ OutUrl.authority = InUrl.authority
           /\ starts_with(OutUrl.path, P_u) = starts_with(InUrl.path, P_u)
           /\ starts_with(OutUrl.path, P_user) = starts_with(InUrl.path, P_user)
           /\ OutUrl.path = Stripped(InUrl.path) \o <<47>> \o S_submitted
           /\ Params(OutUrl) = Params(InUrl) \o <<S_sort \o <<61>> \o S_top>>
           /\ CountParam(OutUrl, S_t) = CountParam(InUrl, S_t)
           /\ (input = Example_user => result.val = Example_user_submitted)

\* C8 witness: the user-page example rewritten
C8_Witness ==
    pc = "rewritten" /\ input = Example_user /\ result = Ok(Example_user_submitted)

(***************************************************************************)
(* Spec: one run of main                                                   *)
(***************************************************************************)
Seeds == 0..MaxSeed

\* what std::env::current_exe() can return: a path, or an error
\* "/usr/bin/narigama-utils"
ExeOutcomes == {Ok(<<47, 117, 115, 114, 47, 98, 105, 110, 47, 110, 97, 114, 105, 103, 97, 109, 97, 45, 117, 116, 105, 108, 115>>), Panicked}

\* what the GET of https://ipv4.icanhazip.com/ can return: a body, or an
\* error (transport, status, or a body that is not UTF-8)
\* "192.0.2.7\n"
IpOutcomes == {Ok(<<49, 57, 50, 46, 48, 46, 50, 46, 55, 10>>), Panicked}

\* values of now().timestamp().to_string(), one per clock reading
\* "2026-01-01T00:00:00Z", "2026-01-01T00:00:01.5Z"
Timestamps ==
    { <<50, 48, 50, 54, 45, 48, 49, 45, 48, 49, 84, 48, 48, 58, 48, 48, 58, 48, 48, 90>>,
      <<50, 48, 50, 54, 45, 48, 49, 45, 48, 49, 84, 48, 48, 58, 48, 48, 58, 48, 49, 46, 53, 90>> }

\* values of Uuid::new_v4(), hyphenated
Uuid4s ==
    { <<51, 102, 50, 98, 56, 99, 49, 101, 45, 57, 100, 52, 97, 45, 52, 101, 54, 102, 45, 56, 97, 49, 98, 45, 48, 99, 50, 100, 51, 101, 52, 102, 53, 97, 54, 98>>,
      <<97, 49, 98, 50, 99, 51, 100, 52, 45, 101, 53, 102, 54, 45, 52, 55, 56, 57, 45, 57, 97, 98, 99, 45, 100, 101, 102, 48, 49, 50, 51, 52, 53, 54, 55, 56>> }

\* values of Uuid::new_v7(now), hyphenated
Uuid7s ==
    { <<48, 49, 57, 98, 55, 97, 51, 99, 45, 53, 99, 48, 48, 45, 55, 100, 50, 101, 45, 56, 102, 49, 48, 45, 49, 97, 50, 98, 51, 99, 52, 100, 53, 101, 54, 102>>,
      <<48, 49, 57, 98, 55, 97, 51, 99, 45, 53, 102, 101, 56, 45, 55, 97, 98, 99, 45, 57, 100, 101, 102, 45, 48, 49, 50, 51, 52, 53, 54, 55, 56, 57, 97, 98>> }

\* the `match &args.command` of main: every value `result` can take, a panic
\* of the function included
dispatch(cmd, in) ==
    CASE cmd = "ConfigEspanso" -> {config_espanso(exe) : exe \in ExeOutcomes}
      [] cmd = "BinaryDecode" -> {binary_decode(in)}
      [] cmd = "BinaryEncode" -> {Ok(binary_encode(in))}
      [] cmd = "FormatJson" -> {format_json(in)}
      [] cmd = "Ip" -> IpOutcomes
      [] cmd = "Password" -> {gen_password(in, seed) : seed \in Seeds}
      [] cmd = "RedditTop" -> {reddit_top(in)}
      [] cmd = "Spongebob" -> {Ok(spongebob(in))}
      [] cmd = "Timestamp" -> {Ok(ts) : ts \in Timestamps}
      [] cmd = "Uuid4" -> {Ok(u) : u \in Uuid4s}
      [] cmd = "Uuid7" -> {Ok(u) : u \in Uuid7s}

\* ' ', '0', 'a', e-acute
MainAlphabet == {32, 48, 97, 233}

\* "9223372036854775808": a length one more than isize::MAX
TooLong == <<57, 50, 50, 51, 51, 55, 50, 48, 51, 54, 56, 53, 52, 55, 55, 53, 56, 48, 56>>

\* clipboard contents beyond the enumerated ones
MainExtras ==
    { <<53>>,                                                   \* "5"
      <<10>>, <<97, 10, 97>>,                                   \* "\n", "a\na"
      <<43, 49>>,                                               \* "+1"
      <<49, 48>>,                                               \* "10"
      <<48, 49, 48, 48, 48, 48, 48, 49, 32, 48, 49, 49, 48, 48, 48, 49, 48>>,   \* "01000001 01100010"
      TooLong,
      Example_listing, Example_user,
      S_mailto \o <<58>> \o S_abc }                              \* "mailto:abc"

MainInputs == StringsUpTo(MainAlphabet, MaxLen) \cup MainExtras

Init ==
    /\ pc = "start"
    /\ command \in Command                  \* Arguments::parse()
    /\ panic_strategy \in {"unwind", "abort"}
    /\ clipboard_init \in MainInputs
    /\ clipboard = clipboard_init
    /\ input = <<>>
    /\ result = Panicked
    /\ reads = 0 /\ writes = <<>>
    /\ stdout_buf = <<>> /\ stdout = <<>>
    /\ failure = "none" /\ exit_code = -1

\* a panic in `step`: the process ends.  Unwinding, the runtime flushes
\* stdout and exits with 101; aborting, what the line buffer holds is lost
Panic(step) ==
    /\ pc' = "panicked"
    /\ failure' = step
    /\ exit_code' = IF panic_strategy = "unwind" THEN 101 ELSE 134
    /\ stdout' = IF panic_strategy = "unwind" THEN stdout \o stdout_buf ELSE stdout
    /\ stdout_buf' = <<>>

\* copypasta::ClipboardContext::new().expect(..)
NewContext ==
    /\ pc = "start"
    /\ \E ok \in BOOLEAN :
           IF ok THEN /\ pc' = "context"
                      /\ UNCHANGED <<failure, exit_code, stdout, stdout_buf>>
                 ELSE Panic("context")
    /\ UNCHANGED <<command, panic_strategy, clipboard, clipboard_init, input, result,
                   reads, writes>>

\* clipboard.get_contents().expect(..): made for every command
GetContents ==
    /\ pc = "context"
    /\ reads' = reads + 1
    /\ \E ok \in BOOLEAN :
           IF ok THEN /\ input' = clipboard
                      /\ pc' = "input"
                      /\ UNCHANGED <<failure, exit_code, stdout, stdout_buf>>
                 ELSE /\ Panic("read")
                      /\ UNCHANGED input
    /\ UNCHANGED <<command, panic_strategy, clipboard, clipboard_init, result, writes>>

\* a failed transformation still reaches the write step, with an empty result
DispatchKeepsGoing ==
    /\ pc = "input"
    /\ \E r \in dispatch(command, input) :
           /\ result' = Ok(r.val)
           /\ pc' = "result"
           /\ failure' = IF r.ok THEN failure ELSE "transform"
           /\ UNCHANGED <<exit_code, stdout, stdout_buf>>
    /\ UNCHANGED <<command, panic_strategy, clipboard, clipboard_init, input, reads, writes>>

\* let result = match &args.command { .. }
Dispatch ==
    /\ pc = "input"
    /\ \E r \in dispatch(command, input) :
           IF r.ok THEN /\ result' = r
                        /\ pc' = "result"
                        /\ UNCHANGED <<failure, exit_code, stdout, stdout_buf>>
                   ELSE /\ Panic("transform")
                        /\ UNCHANGED result
    /\ UNCHANGED <<command, panic_strategy, clipboard, clipboard_init, input, reads, writes>>

\* index of the last c in s, 0 when there is none
LastIndexOf(s, c) ==
    IF \E i \in 1..Len(s) : s[i] = c
    THEN CHOOSE i \in 1..Len(s) : s[i] = c /\ \A j \in (i + 1)..Len(s) : s[j] # c
    ELSE 0

\* print! {"{}", result.trim()}: stdout is line-buffered, so the text up to
\* its last '\n' is written out and the rest waits in the buffer (every text
\* of this model is shorter than the buffer)
PrintResult ==
    /\ pc = "result"
    /\ LET text == trim(result.val)
           nl == LastIndexOf(text, 10)
       IN  /\ stdout' = stdout \o SubSeq(text, 1, nl)
           /\ stdout_buf' = SubSeq(text, nl + 1, Len(text))
    /\ pc' = "printed"
    /\ UNCHANGED <<command, panic_strategy, clipboard, clipboard_init, input, result,
                   reads, writes, failure, exit_code>>

\* clipboard.set_contents(result).expect(..), then main returns: the runtime
\* flushes stdout and the process exits with 0
SetContents ==
    /\ pc = "printed"
    /\ writes' = Append(writes, result.val)
    /\ \E ok \in BOOLEAN :
           IF ok THEN /\ clipboard' = result.val
                      /\ pc' = "exited"
                      /\ exit_code' = 0
                      /\ stdout' = stdout \o stdout_buf
                      /\ stdout_buf' = <<>>
                      /\ UNCHANGED failure
                 ELSE /\ Panic("write")
                      /\ UNCHANGED clipboard
    /\ UNCHANGED <<command, panic_strategy, clipboard_init, input, result, reads>>

Next == NewContext \/ GetContents \/ Dispatch \/ PrintResult \/ SetContents

Spec == Init /\ [][Next]_vars

\* the commands that take no input
NoInputCommands == {"ConfigEspanso", "Ip", "Timestamp", "Uuid4", "Uuid7"}

\* C1: the clipboard is read only for a command that takes input; for ip,
\* timestamp, uuid4, uuid7 and config-espanso no read is made, and no failed
\* read ends the run
C1_ReadOnlyWhenInputRequired ==
    command \in NoInputCommands => (reads = 0 /\ failure # "read")

\* C2: after a failure before the write step (the clipboard context, the
\* read, or the transformation) set_contents has not been called and the
\* clipboard holds what it held at the start
C2_NoWriteAfterEarlyFailure ==
    failure \in {"context", "read", "transform"}
        => (pc = "panicked" /\ writes = <<>> /\ clipboard = clipboard_init)

\* C2 witness: format-json panicked on a clipboard that holds no JSON
C2_Witness ==
    /\ command = "FormatJson" /\ failure = "transform" /\ pc = "panicked"
    /\ reads = 1 /\ input = <<97>>

\* C3: a run that ends in an error has written nothing to stdout
C3_NoOutputOnError ==
    pc = "panicked" => stdout = <<>>

\* C10: the command names, as the claim lists them
C10_Names ==
    <<<<98, 105, 110, 97, 114, 121, 45, 100, 101, 99, 111, 100, 101>>,
      <<98, 105, 110, 97, 114, 121, 45, 101, 110, 99, 111, 100, 101>>,
      <<102, 111, 114, 109, 97, 116, 45, 106, 115, 111, 110>>,
      <<105, 112>>,
      <<112, 97, 115, 115, 119, 111, 114, 100>>,
      <<114, 101, 100, 100, 105, 116, 45, 116, 111, 112>>,
      <<115, 112, 111, 110, 103, 101, 98, 111, 98>>,
      <<116, 105, 109, 101, 115, 116, 97, 109, 112>>,
      <<117, 117, 105, 100, 52>>,
      <<117, 117, 105, 100, 55>>>>

\* "\n  - trigger: "
C10_TriggerKey == <<10, 32, 32, 45, 32, 116, 114, 105, 103, 103, 101, 114, 58, 32>>
\* "\n            - "
C10_ArgKey == <<10, 32, 32, 32, 32, 32, 32, 32, 32, 32, 32, 32, 32, 45, 32>>

\* the places where pat occurs in text
C10_Occurrences(text, pat) ==
    {i \in 1..(Len(text) - Len(pat) + 1) :
        text[i] = pat[1] /\ SubSeq(text, i, i + Len(pat) - 1) = pat}

\* the trigger line of a command: "\n  - trigger: \";name\"\n"
C10_TriggerLine(name) == C10_TriggerKey \o <<34, 59>> \o name \o <<34, 10>>

\* the two argument lines of a command: the executable, then the name
C10_ArgLines(exe, name) == C10_ArgKey \o exe \o C10_ArgKey \o name \o <<10>>

\* C10: the output of config_espanso has one block per command other than
\* config-espanso, in declaration order; a block's trigger is ';' and the
\* command's name, and its arguments are the executable and that name
C10_OneBlockPerCommand ==
    (command = "ConfigEspanso" /\ pc = "result")
        => LET text == result.val
               n == Len(C10_Names)
               trig(i) == C10_Occurrences(text, C10_TriggerLine(C10_Names[i]))
               args(exe, i) == C10_Occurrences(text, C10_ArgLines(exe, C10_Names[i]))
               at(S) == CHOOSE p \in S : TRUE
           IN  /\ Cardinality(C10_Occurrences(text, C10_TriggerKey)) = n
               /\ Cardinality(C10_Occurrences(text, C10_ArgKey)) = 2 * n
               /\ \E exe \in ExeOutcomes :
                      /\ exe.ok
                      /\ \A i \in 1..n :
                             /\ Cardinality(trig(i)) = 1
                             /\ Cardinality(args(exe.val, i)) = 1
                             /\ at(trig(i)) < at(args(exe.val, i))
                             /\ i < n => at(args(exe.val, i)) < at(trig(i + 1))

\* C10 witness: config_espanso has returned its blocks to main
C10_Witness ==
    /\ command = "ConfigEspanso" /\ pc = "result"
    /\ result.ok /\ Len(result.val) > 0 /\ writes = <<>>

(***************************************************************************)
(* SpecPassword: gen_password applied to one input                         *)
(***************************************************************************)
\* '0', '1', '+', '-', ' ', 'a'
PasswordAlphabet == {48, 49, 43, 45, 32, 97}

PasswordInputs ==
    StringsUpTo(PasswordAlphabet, MaxLen)
    \cup { <<53>>,                                  \* "5"
           <<51, 50>>,                              \* "32"
           <<110, 111, 116, 45, 97, 45, 110, 117, 109, 98, 101, 114>>,   \* "not-a-number"
           TooLong,
           USIZE_MAX,
           <<49, 56, 52, 52, 54, 55, 52, 52, 48, 55, 51, 55, 48, 57, 53, 53, 49, 54, 49, 54>> }   \* usize::MAX + 1

InitPassword ==
    /\ pc = "start"
    /\ command = "Password"
    /\ input \in PasswordInputs
    /\ result = Panicked
    /\ Idle

Generate ==
    /\ pc = "start" /\ command = "Password"
    /\ \E seed \in Seeds : result' = gen_password(input, seed)
    /\ pc' = "generated"
    /\ IdleUnchanged

NextPassword == Generate

SpecPassword == InitPassword /\ [][NextPassword]_vars

\* a decimal integer: digits only
IsDecimal(s) == s # <<>> /\ \A i \in 1..Len(s) : s[i] \in 48..57

\* C9: gen_password never fails; its result is made of [A-Za-z0-9]; its length
\* is the integer the input holds, and 32 when the input is empty or is no
\* integer
C9_PasswordNeverFails ==
    pc = "generated"
        => /\ result.ok
           /\ \A i \in 1..Len(result.val) :
                  result.val[i] \in (65..90) \cup (97..122) \cup (48..57)
           /\ (IsDecimal(input) /\ Len(input) <= 9
                  => Len(result.val) = DecimalValue(input, 0))
           /\ ((input = <<>> \/ \E i \in 1..Len(input) : input[i] \notin (48..57) \cup {43, 45})
                  => Len(result.val) = 32)

====
